---- MODULE Spec2Model ----
(***************************************************************************)
(* Model of src/utils.py: the NylasScheduler facade over the Nylas events  *)
(* API (create, delete, undo, single-page and paginated listing, cleanup), *)
(* its action history, and the parse_when / parse_nylas_event normalizers. *)
(*                                                                         *)
(* Time is abstract: an instant is a number of model seconds, a calendar   *)
(* day holds SecPerDay of them, a date text is represented by its day      *)
(* number and a zone by its name and its offset from UTC.  Pass-through    *)
(* fields (title, location, description, participants, metadata, ...) do   *)
(* not decide anything modelled here and are left out of the records.      *)
(***************************************************************************)
EXTENDS Integers, Sequences, FiniteSets, TLC

VARIABLES
    calendar,        \* collaborator: the set of events it holds
    nextId,          \* collaborator: the next identifier it assigns
    action_history,  \* NylasScheduler.action_history
    pc,              \* the facade's position: "idle", "paging", "deleting"
    loc,             \* locals of the operation in progress
    calls,           \* collaborator calls issued by the current or last operation
    last             \* outcome of the last step (what the caller observes)

vars == <<calendar, nextId, action_history, pc, loc, calls, last>>

(***************************** bounds **************************************)
\* identifiers the collaborator can assign before the model stops creating
MaxIds == 2
\* model seconds in a calendar day
SecPerDay == 2
\* instants and dates offered to parse_when lie in 0..MaxStamp and 0..MaxDate
MaxStamp == 2
MaxDate == 1
\* events per page of the collaborator's list call (limit=200, scaled down)
PageLimit == 1
\* "now", as a day number; cleanup looks back LookBackDays (10 years, scaled)
Today == 2
LookBackDays == 3

(**************************** constants ************************************)
\* page_token = None, response.next_cursor absent
NoCursor == 0
\* Python's None where an integer may be absent (end, limit, an identifier)
None == -1
\* get_events: limit or 100
DefaultLimit == 100
\* get_all_events: end defaults to start + 1 year
YearDays == 365
\* get_next_three_days_events and get_next_week_events
ThreeDays == 3
WeekDays == 7

Timezones == {"UTC", "America/New_York"}

\* seconds a zone's wall clock is ahead of UTC
UtcOffset(tz) == IF tz = "UTC" THEN 0 ELSE -1

NoTime == [ts |-> 0, tz |-> "none"]

\* pendulum.from_timestamp(ts, tz=UTC).in_timezone(tz): same instant, other zone
FromTimestamp(ts, tz) == [ts |-> ts, tz |-> tz]

\* DateTime.start_of('day') and .end_of('day'), in the value's own zone
StartOfDay(dt) ==
    [ts |-> ((dt.ts + UtcOffset(dt.tz)) \div SecPerDay) * SecPerDay - UtcOffset(dt.tz),
     tz |-> dt.tz]

EndOfDay(dt) ==
    [ts |-> ((dt.ts + UtcOffset(dt.tz)) \div SecPerDay) * SecPerDay
            + (SecPerDay - 1) - UtcOffset(dt.tz),
     tz |-> dt.tz]

\* pendulum.parse(date_str, tz=tz): local midnight of that date
ParseDate(date, tz) == [ts |-> date * SecPerDay - UtcOffset(tz), tz |-> tz]

\* DateTime.to_date_string(): the local calendar day
ToDateString(dt) == (dt.ts + UtcOffset(dt.tz)) \div SecPerDay

(********************** when-representations *******************************)
Stamps == 0..MaxStamp
Dates == 0..MaxDate

TimeWhens == [kind : {"Time"}, time : Stamps, timezone : Timezones]

TimespanWhens ==
    [kind : {"Timespan"}, start_time : Stamps, end_time : Stamps,
     start_timezone : Timezones, end_timezone : Timezones]

DateWhens == [kind : {"Date"}, date : Dates]

DatespanWhens == [kind : {"Datespan"}, start_date : Dates, end_date : Dates]

\* any value that is none of the four Nylas classes
OtherWhens == [kind : {"Other"}, start_time : Stamps]

WhenInputs == TimeWhens \cup TimespanWhens \cup DateWhens \cup DatespanWhens \cup OtherWhens

ParseWhenAllDay_DateOnly(kind) == kind = "Date"

\* the all_day flag parse_when sets in the branch taken for `kind`
ParseWhenAllDay(kind) == kind \in {"Date", "Datespan"}

\* parse_when: (start_time, end_time, all_day), or ValueError raised
parse_when(when_data, user_timezone) ==
    CASE when_data.kind = "Time" ->
           [ok |-> TRUE, err |-> "none",
            start_time |-> FromTimestamp(when_data.time, when_data.timezone),
            end_time |-> FromTimestamp(when_data.time, when_data.timezone),
            all_day |-> ParseWhenAllDay("Time")]
      [] when_data.kind = "Timespan" ->
           [ok |-> TRUE, err |-> "none",
            start_time |-> FromTimestamp(when_data.start_time, when_data.start_timezone),
            end_time |-> FromTimestamp(when_data.end_time, when_data.end_timezone),
            all_day |-> ParseWhenAllDay("Timespan")]
      [] when_data.kind = "Date" ->
           [ok |-> TRUE, err |-> "none",
            start_time |-> StartOfDay(ParseDate(when_data.date, user_timezone)),
            end_time |-> EndOfDay(StartOfDay(ParseDate(when_data.date, user_timezone))),
            all_day |-> ParseWhenAllDay("Date")]
      [] when_data.kind = "Datespan" ->
           [ok |-> TRUE, err |-> "none",
            start_time |-> StartOfDay(ParseDate(when_data.start_date, user_timezone)),
            end_time |-> EndOfDay(ParseDate(when_data.end_date, user_timezone)),
            all_day |-> ParseWhenAllDay("Datespan")]
      [] OTHER ->
           [ok |-> FALSE, err |-> "ValueError", start_time |-> NoTime,
            end_time |-> NoTime, all_day |-> FALSE]

\* parse_nylas_event: the normalized Event, or parse_when's error
parse_nylas_event(event, user_timezone) ==
    LET w == parse_when(event.when, user_timezone)
    IN  [ok |-> w.ok, err |-> w.err, id |-> event.id, start_time |-> w.start_time,
         end_time |-> w.end_time, all_day |-> w.all_day]

(**************************** collaborator *********************************)
\* failures the Nylas client raises from any call
CollabErrors == {"NylasApiError", "NylasSdkTimeoutError"}

NoWhen == [kind |-> "none"]
NoEvent == [id |-> None, when |-> NoWhen]

\* a collaborator call as issued: which, for which event or page, how it ended
Call(fn, id, when, token, result, cursor) ==
    [fn |-> fn, id |-> id, when |-> when, token |-> token, result |-> result, cursor |-> cursor]

Exists(cal, id) == \E e \in cal : e.id = id

EventOf(cal, id) == CHOOSE e \in cal : e.id = id

\* outcomes of find and destroy: an unknown identifier is an API error
LookupOutcomes(cal, id) ==
    IF Exists(cal, id) THEN {"ok"} \cup CollabErrors ELSE {"NylasApiError"}

\* outcomes of create: the collaborator stops assigning identifiers at MaxIds
CreateOutcomes(next) == IF next <= MaxIds THEN {"ok"} \cup CollabErrors ELSE CollabErrors

\* the instant the collaborator files an event under
WhenStart(when) ==
    CASE when.kind = "Time" -> when.time
      [] when.kind = "Timespan" -> when.start_time
      [] when.kind = "Date" -> when.date * SecPerDay
      [] when.kind = "Datespan" -> when.start_date * SecPerDay
      [] OTHER -> when.start_time

\* the when the response carries: as requested, or (garbled) a shape this client
\* does not know
ResponseWhen(when, garbled) ==
    IF garbled THEN [kind |-> "Other", start_time |-> WhenStart(when)] ELSE when

\* events of the window, start inclusive, end optional
Matching(cal, start, end) ==
    {e \in cal : WhenStart(e.when) >= start /\ (end = None \/ WhenStart(e.when) <= end)}

RECURSIVE ById(_)
\* a set of events as the list the collaborator returns, by identifier
ById(S) ==
    IF S = {} THEN <<>>
    ELSE LET m == CHOOSE e \in S : \A f \in S : e.id <= f.id
         IN  <<m>> \o ById(S \ {m})

Min(a, b) == IF a <= b THEN a ELSE b

\* one page of `all`: the events after offset `token`, and the cursor of the next
ListPage(all, token, limit) ==
    [data |-> SubSeq(all, token + 1, Min(token + limit, Len(all))),
     next_cursor |-> IF token + limit < Len(all) THEN token + limit ELSE NoCursor]

(************************** event translation ******************************)
user_timezone == "UTC"

EventDataInputs ==
    { [when |-> "not a datetime", duration_minutes |-> 1, all_day |-> FALSE],
      [when |-> "day0T00:00", duration_minutes |-> 1, all_day |-> FALSE],
      [when |-> "day1T00:00", duration_minutes |-> 1, all_day |-> TRUE] }

\* pendulum.parse(text, tz=tz): the instant of that wall-clock time, or a ParserError
PendulumParse(text, tz) ==
    CASE text = "day0T00:00" -> [ok |-> TRUE, dt |-> [ts |-> 0 - UtcOffset(tz), tz |-> tz]]
      [] text = "day1T00:00" -> [ok |-> TRUE, dt |-> [ts |-> SecPerDay - UtcOffset(tz), tz |-> tz]]
      [] OTHER -> [ok |-> FALSE, dt |-> NoTime]

\* the When object create_event builds
BuildWhen(event_data, start_time) ==
    IF event_data.all_day
    THEN [kind |-> "Date", date |-> ToDateString(start_time)]
    ELSE [kind |-> "Timespan", start_time |-> start_time.ts,
          end_time |-> start_time.ts + event_data.duration_minutes,
          start_timezone |-> user_timezone, end_timezone |-> user_timezone]

RECURSIVE ParseAll(_)
\* [parse_nylas_event(event, tz) for event in events]: the list, or the first error
ParseAll(events) ==
    IF events = <<>> THEN [ok |-> TRUE, err |-> "none", events |-> <<>>]
    ELSE LET h == parse_nylas_event(Head(events), user_timezone)
             t == ParseAll(Tail(events))
         IN  IF ~h.ok THEN [ok |-> FALSE, err |-> h.err, events |-> <<>>]
             ELSE IF ~t.ok THEN t
             ELSE [ok |-> TRUE, err |-> "none", events |-> <<h>> \o t.events]

(**************************** action history *******************************)
RecordCreate_Twice(history, event_id) ==
    history \o << [action |-> "create", event_id |-> event_id, event_data |-> NoEvent],
                  [action |-> "create", event_id |-> event_id, event_data |-> NoEvent] >>

\* create_event: action_history.append(ActionHistoryEntry(action='create', ...))
RecordCreate(history, event_id) ==
    Append(history, [action |-> "create", event_id |-> event_id, event_data |-> NoEvent])

RecordDelete_NoSnapshot(history, event_id, event) ==
    Append(history, [action |-> "delete", event_id |-> event_id, event_data |-> NoEvent])

\* delete_event: action_history.append(ActionHistoryEntry(action='delete', ...))
RecordDelete(history, event_id, event) ==
    Append(history, [action |-> "delete", event_id |-> event_id, event_data |-> event])

PopHistory_DropOldest(history) == Tail(history)

PopHistory_Keep(history) == history

\* undo_last_action: action_history.pop() leaves all but the last entry
PopHistory(history) == SubSeq(history, 1, Len(history) - 1)

\* undo_last_action: the entry action_history.pop() returns
TopEntry(history) == history[Len(history)]

(******************************* outcomes **********************************)
\* what the caller observes of a step: returned value or raised error
Outcome(op, status, err) ==
    [op |-> op, status |-> status, err |-> err, id |-> None, new_id |-> None,
     msg |-> "none", events |-> <<>>, count |-> 0, after |-> "other"]

Returned(op) == Outcome(op, "returned", "none")

\* what undo_last_action was called right after: a create_event or delete_event
\* that returned, or anything else
CalledAfter ==
    IF last.status = "returned" /\ last.op \in {"create_event", "delete_event"}
    THEN last.op ELSE "other"

\* the caller's view of an undo_last_action that returned `msg` or raised `err`
Undone(err, msg, id, new_id) ==
    [Outcome("undo_last_action", IF err = "none" THEN "returned" ELSE "raised", err) EXCEPT
       !.msg = msg, !.id = id, !.new_id = new_id, !.after = CalledAfter]

Raised(op, err) == Outcome(op, "raised", err)

NoLocals ==
    [caller |-> "none", start |-> 0, end |-> 0, page_token |-> NoCursor,
     all_events |-> <<>>, events_to_delete |-> <<>>, i |-> 0]

Init ==
    /\ calendar = {}
    /\ nextId = 1
    /\ action_history = <<>>
    /\ pc = "idle"
    /\ loc = NoLocals
    /\ calls = <<>>
    /\ last = Outcome("init", "returned", "none")

(****************************** create_event *******************************)
\* create_event(event_data); `outcome` and `garbled` are the collaborator's answer
CreateEvent(event_data, outcome, garbled) ==
    LET parsed == PendulumParse(event_data.when, user_timezone)
        when == BuildWhen(event_data, parsed.dt)
        event == [id |-> nextId, when |-> ResponseWhen(when, garbled)]
        normalized == parse_nylas_event(event, user_timezone)
    IN  /\ pc = "idle"
        /\ UNCHANGED <<pc, loc>>
        /\ IF ~parsed.ok
           THEN /\ outcome = "ok"
                /\ ~garbled
                /\ calls' = <<>>
                /\ last' = Raised("create_event", "ParserError")
                /\ UNCHANGED <<calendar, nextId, action_history>>
           ELSE /\ outcome \in CreateOutcomes(nextId)
                /\ IF outcome # "ok"
                   THEN /\ ~garbled
                        /\ calls' = <<Call("create", None, when, NoCursor, outcome, NoCursor)>>
                        /\ last' = Raised("create_event", outcome)
                        /\ UNCHANGED <<calendar, nextId, action_history>>
                   ELSE /\ calls' = <<Call("create", event.id, when, NoCursor, "ok", NoCursor)>>
                        /\ calendar' = calendar \cup {event}
                        /\ nextId' = nextId + 1
                        /\ action_history' = RecordCreate(action_history, event.id)
                        /\ last' = IF normalized.ok
                                   THEN [Returned("create_event") EXCEPT
                                           !.id = normalized.id, !.events = <<normalized>>]
                                   ELSE Raised("create_event", normalized.err)

(****************************** delete_event *******************************)
delete_event_DestroysUnfetched(cal, history, event_id, found, destroyed) ==
    IF ~Exists(cal, event_id)
    THEN [ok |-> FALSE, err |-> found, calendar |-> cal, history |-> history,
          calls |-> <<Call("find", event_id, NoWhen, NoCursor, found, NoCursor)>>]
    ELSE [ok |-> found = "ok", err |-> IF found = "ok" THEN "none" ELSE found,
          calendar |-> cal \ {EventOf(cal, event_id)},
          history |-> RecordDelete(history, event_id,
                                   IF found = "ok" THEN EventOf(cal, event_id) ELSE NoEvent),
          calls |-> <<Call("find", event_id, NoWhen, NoCursor, found, NoCursor),
                      Call("destroy", event_id, NoWhen, NoCursor, "ok", NoCursor)>>]

\* delete_event(event_id) on calendar `cal` and history `history`: what it leaves
\* behind; `found` and `destroyed` are the collaborator's answers to find and destroy
delete_event(cal, history, event_id, found, destroyed) ==
    IF found # "ok"
    THEN [ok |-> FALSE, err |-> found, calendar |-> cal, history |-> history,
          calls |-> <<Call("find", event_id, NoWhen, NoCursor, found, NoCursor)>>]
    ELSE IF destroyed # "ok"
    THEN [ok |-> FALSE, err |-> destroyed, calendar |-> cal, history |-> history,
          calls |-> <<Call("find", event_id, NoWhen, NoCursor, "ok", NoCursor),
                      Call("destroy", event_id, NoWhen, NoCursor, destroyed, NoCursor)>>]
    ELSE [ok |-> TRUE, err |-> "none",
          calendar |-> cal \ {EventOf(cal, event_id)},
          history |-> RecordDelete(history, event_id, EventOf(cal, event_id)),
          calls |-> <<Call("find", event_id, NoWhen, NoCursor, "ok", NoCursor),
                      Call("destroy", event_id, NoWhen, NoCursor, "ok", NoCursor)>>]

DeleteEvent(event_id, found, destroyed) ==
    LET r == delete_event(calendar, action_history, event_id, found, destroyed)
    IN  /\ pc = "idle"
        /\ found \in LookupOutcomes(calendar, event_id)
        /\ destroyed \in IF found = "ok" THEN {"ok"} \cup CollabErrors ELSE {"ok"}
        /\ calendar' = r.calendar
        /\ action_history' = r.history
        /\ calls' = r.calls
        /\ last' = IF r.ok THEN [Returned("delete_event") EXCEPT !.id = event_id]
                   ELSE [Raised("delete_event", r.err) EXCEPT !.id = event_id]
        /\ UNCHANGED <<nextId, pc, loc>>

(**************************** undo_last_action ****************************)
UndoOnEmpty_PopRaises == Undone("IndexError", "none", None, None)

\* if not self.action_history: return 'No actions to undo.'
UndoOnEmpty == Undone("none", "No actions to undo.", None, None)

\* undo_last_action(); `outcome` is the collaborator's answer, if it is asked.
\* The response's when is never read here: the event is filed as requested.
UndoLastAction(outcome) ==
    LET entry == TopEntry(action_history)
        snapshot == entry.event_data
        event == [id |-> nextId, when |-> snapshot.when]
    IN  /\ pc = "idle"
        /\ UNCHANGED <<pc, loc>>
        /\ IF action_history = <<>>
           THEN /\ outcome = "ok"
                /\ calls' = <<>>
                /\ last' = UndoOnEmpty
                /\ UNCHANGED <<calendar, nextId, action_history>>
           ELSE /\ action_history' = PopHistory(action_history)
                /\ CASE entry.action = "create" ->
                          /\ outcome \in LookupOutcomes(calendar, entry.event_id)
                          /\ calls' = <<Call("destroy", entry.event_id, NoWhen, NoCursor,
                                             outcome, NoCursor)>>
                          /\ UNCHANGED nextId
                          /\ IF outcome = "ok"
                             THEN /\ calendar' = calendar \ {EventOf(calendar, entry.event_id)}
                                  /\ last' = Undone("none", "Creation of event has been undone.",
                                                    entry.event_id, None)
                             ELSE /\ calendar' = calendar
                                  /\ last' = Undone(outcome, "none", entry.event_id, None)
                     [] entry.action = "delete" /\ snapshot = NoEvent ->
                          /\ outcome = "ok"
                          /\ calls' = <<>>
                          /\ last' = Undone("none", "No event data to recreate the event.",
                                            entry.event_id, None)
                          /\ UNCHANGED <<calendar, nextId>>
                     [] entry.action = "delete" /\ snapshot # NoEvent ->
                          /\ outcome \in CreateOutcomes(nextId)
                          /\ IF outcome = "ok"
                             THEN /\ calls' = <<Call("create", event.id, snapshot.when,
                                                     NoCursor, "ok", NoCursor)>>
                                  /\ calendar' = calendar \cup {event}
                                  /\ nextId' = nextId + 1
                                  /\ last' = Undone("none",
                                                "Deletion of event has been undone. New event ID is",
                                                entry.event_id, event.id)
                             ELSE /\ calls' = <<Call("create", None, snapshot.when,
                                                     NoCursor, outcome, NoCursor)>>
                                  /\ last' = Undone(outcome, "none", entry.event_id, None)
                                  /\ UNCHANGED <<calendar, nextId>>
                     [] OTHER ->
                          /\ outcome = "ok"
                          /\ calls' = <<>>
                          /\ last' = Undone("none", "Unknown action.", entry.event_id, None)
                          /\ UNCHANGED <<calendar, nextId>>

(******************************* get_events ********************************)
\* get_events(start, end, limit): the parsed first page, or the error raised
get_events(cal, start, end, limit, outcome) ==
    LET q_end == IF end = None \/ end = 0 THEN None ELSE end
        q_limit == IF limit = None \/ limit = 0 THEN DefaultLimit ELSE limit
        data == ListPage(ById(Matching(cal, start, q_end)), NoCursor, q_limit).data
        parsed == ParseAll(data)
    IN  IF outcome # "ok" THEN [ok |-> FALSE, err |-> outcome, events |-> <<>>]
        ELSE parsed

\* the caller's view of a get_events call made by `op`
Listed(op, start, end, limit, outcome) ==
    LET r == get_events(calendar, start, end, limit, outcome)
    IN  /\ pc = "idle"
        /\ outcome \in {"ok"} \cup CollabErrors
        /\ calls' = <<Call("list", None, NoWhen, NoCursor, outcome, NoCursor)>>
        /\ last' = IF r.ok THEN [Returned(op) EXCEPT !.events = r.events]
                   ELSE Raised(op, r.err)
        /\ UNCHANGED <<calendar, nextId, action_history, pc, loc>>

\* pendulum.now(tz): late on day Today
Now(tz) == [ts |-> Today * SecPerDay + (SecPerDay - 1) - UtcOffset(tz), tz |-> tz]

\* DateTime.add(days=n) and .subtract(days=n)
AddDays(dt, n) == [ts |-> dt.ts + n * SecPerDay, tz |-> dt.tz]

GetEvents(start, end, limit, outcome) == Listed("get_events", start, end, limit, outcome)

\* the three window queries return what their get_events call returns or raises

GetTodaysEvents(outcome) ==
    Listed("get_events", StartOfDay(Now(user_timezone)).ts,
           EndOfDay(Now(user_timezone)).ts, None, outcome)

GetNextThreeDaysEvents(outcome) ==
    Listed("get_events", StartOfDay(Now(user_timezone)).ts,
           AddDays(StartOfDay(Now(user_timezone)), ThreeDays).ts, None, outcome)

GetNextWeekEvents(outcome) ==
    Listed("get_events", StartOfDay(Now(user_timezone)).ts,
           AddDays(StartOfDay(Now(user_timezone)), WeekDays).ts, None, outcome)

(***************************** get_all_events ******************************)
\* all_events.extend([...parsed page...])
Accumulate(all_events, parsed) == all_events \o parsed

NextToken_Restart(page_token, next_cursor) == page_token

\* page_token = response.next_cursor
NextToken(page_token, next_cursor) == next_cursor

\* if not response.next_cursor: break
LoopEnds(next_cursor) == next_cursor = NoCursor

\* entry of get_all_events, called by `caller`: the first page is still to fetch
StartPaging(caller, start, end) ==
    /\ pc = "idle"
    /\ pc' = "paging"
    /\ loc' = [NoLocals EXCEPT !.caller = caller, !.start = start,
                  !.end = IF end = None THEN start + YearDays * SecPerDay ELSE end]
    /\ calls' = <<>>
    /\ last' = Outcome(caller, "running", "none")
    /\ UNCHANGED <<calendar, nextId, action_history>>

GetAllEvents(start, end) == StartPaging("get_all_events", start, end)

\* cleanup_calendar(days_to_keep): the retention window, then get_all_events
CleanupCalendar(days_to_keep) ==
    StartPaging("cleanup_calendar",
                StartOfDay(AddDays(Now("UTC"), 0 - LookBackDays)).ts,
                EndOfDay(AddDays(Now("UTC"), 0 - days_to_keep)).ts)

\* print(f'Cleanup complete. Deleted {len(events_to_delete)} events.')
ReportedCount(events_to_delete) == Len(events_to_delete)

\* cleanup_calendar returns after its loop over events_to_delete
FinishCleanup(events_to_delete) ==
    /\ pc' = "idle"
    /\ loc' = NoLocals
    /\ last' = [Returned("cleanup_calendar") EXCEPT !.count = ReportedCount(events_to_delete)]

\* one pass of the while loop of get_all_events: a list call and what follows it;
\* `outcome` and `size` are the collaborator's: it fills a page with up to limit events
FetchPage(outcome, size) ==
    LET all == ById(Matching(calendar, loc.start, loc.end))
        page == ListPage(all, loc.page_token, size)
        parsed == ParseAll(page.data)
        all_events == Accumulate(loc.all_events, parsed.events)
        err == IF outcome # "ok" THEN outcome ELSE parsed.err
    IN  /\ pc = "paging"
        /\ outcome \in {"ok"} \cup CollabErrors
        /\ size \in IF outcome = "ok" THEN 1..PageLimit ELSE {PageLimit}
        /\ calls' = Append(calls, Call("list", None, NoWhen, loc.page_token, outcome,
                                       IF outcome = "ok" THEN page.next_cursor ELSE NoCursor))
        /\ UNCHANGED <<calendar, nextId, action_history>>
        /\ IF outcome # "ok" \/ ~parsed.ok
           THEN /\ pc' = "idle"
                /\ loc' = NoLocals
                /\ last' = Raised(loc.caller, err)
           ELSE IF ~LoopEnds(page.next_cursor)
           THEN /\ pc' = "paging"
                /\ loc' = [loc EXCEPT !.all_events = all_events,
                              !.page_token = NextToken(loc.page_token, page.next_cursor)]
                /\ last' = Outcome(loc.caller, "running", "none")
           ELSE IF loc.caller = "get_all_events"
           THEN /\ pc' = "idle"
                /\ loc' = NoLocals
                /\ last' = [Returned("get_all_events") EXCEPT !.events = all_events]
           ELSE IF all_events = <<>>
           THEN FinishCleanup(all_events)
           ELSE /\ pc' = "deleting"
                /\ loc' = [loc EXCEPT !.all_events = <<>>, !.page_token = NoCursor,
                              !.events_to_delete = all_events, !.i = 1]
                /\ last' = Outcome(loc.caller, "running", "none")

(**************************** cleanup_calendar *****************************)
\* one pass of the for loop of cleanup_calendar: delete_event, its failure swallowed
CleanupDelete(found, destroyed) ==
    LET event == loc.events_to_delete[loc.i]
        r == delete_event(calendar, action_history, event.id, found, destroyed)
    IN  /\ pc = "deleting"
        /\ found \in LookupOutcomes(calendar, event.id)
        /\ destroyed \in IF found = "ok" THEN {"ok"} \cup CollabErrors ELSE {"ok"}
        /\ calendar' = r.calendar
        /\ action_history' = r.history
        /\ calls' = calls \o r.calls
        /\ UNCHANGED nextId
        /\ IF loc.i = Len(loc.events_to_delete)
           THEN FinishCleanup(loc.events_to_delete)
           ELSE /\ pc' = "deleting"
                /\ loc' = [loc EXCEPT !.i = loc.i + 1]
                /\ last' = Outcome(loc.caller, "running", "none")

(****************************** specification ******************************)
Outcomes == {"ok"} \cup CollabErrors

\* identifiers a caller can hold: those assigned so far, and one never assigned
EventIds == 1..Min(nextId, MaxIds)

WindowStarts == {0}

WindowEnds == {None, SecPerDay - 1}

LimitInputs == {1}

DaysToKeepInputs == {1, 2}

Next ==
    \/ \E d \in EventDataInputs, o \in Outcomes, g \in BOOLEAN : CreateEvent(d, o, g)
    \/ \E id \in EventIds, f \in Outcomes, d \in Outcomes : DeleteEvent(id, f, d)
    \/ \E o \in Outcomes : UndoLastAction(o)
    \/ \E s \in WindowStarts, e \in WindowEnds, l \in LimitInputs, o \in Outcomes :
          GetEvents(s, e, l, o)
    \/ \E o \in Outcomes : GetTodaysEvents(o)
    \/ \E o \in Outcomes : GetNextThreeDaysEvents(o)
    \/ \E o \in Outcomes : GetNextWeekEvents(o)
    \/ \E s \in WindowStarts, e \in WindowEnds : GetAllEvents(s, e)
    \/ \E k \in DaysToKeepInputs : CleanupCalendar(k)
    \/ \E o \in Outcomes, n \in 1..PageLimit : FetchPage(o, n)
    \/ \E f \in Outcomes, d \in Outcomes : CleanupDelete(f, d)

Spec == Init /\ [][Next]_vars

(*************************** parse_when, called ****************************)
\* parse_when on its own: the arguments are drawn at the start, then it is applied
ParseInit ==
    /\ calendar = {}
    /\ nextId = 1
    /\ action_history = <<>>
    /\ pc = "called"
    /\ loc \in [when_data : WhenInputs, user_timezone : Timezones]
    /\ calls = <<>>
    /\ last = [status |-> "running", result |-> parse_when([kind |-> "Other"], "UTC")]

ParseWhenCall ==
    LET r == parse_when(loc.when_data, loc.user_timezone)
    IN  /\ pc = "called"
        /\ pc' = "done"
        /\ last' = [status |-> IF r.ok THEN "returned" ELSE "raised", result |-> r]
        /\ UNCHANGED <<calendar, nextId, action_history, loc, calls>>

ParseSpec == ParseInit /\ [][ParseWhenCall]_vars

(************************* get_all_events, called **************************)
\* whens of the events an account can hold: what create_event files for each of
\* its inputs, as requested or in a shape this client does not know
ExistingWhens ==
    UNION { {BuildWhen(d, PendulumParse(d.when, user_timezone).dt),
             ResponseWhen(BuildWhen(d, PendulumParse(d.when, user_timezone).dt), TRUE)} :
            d \in {e \in EventDataInputs : PendulumParse(e.when, user_timezone).ok} }

\* calendars of an account: at most one event per identifier
ExistingCalendars ==
    {cal \in SUBSET [id : 1..MaxIds, when : ExistingWhens] :
        \A e, f \in cal : e.id = f.id => e = f}

\* a scheduler constructed over an account that already holds events
PagingInit ==
    /\ calendar \in ExistingCalendars
    /\ nextId = MaxIds + 1
    /\ action_history = <<>>
    /\ pc = "idle"
    /\ loc = NoLocals
    /\ calls = <<>>
    /\ last = Outcome("init", "returned", "none")

PagingNext ==
    \/ \E s \in WindowStarts, e \in WindowEnds : GetAllEvents(s, e)
    \/ \E o \in Outcomes, n \in 1..PageLimit : FetchPage(o, n)

\* get_all_events on its own.  A call in progress runs on: the synchronous loop
\* is not abandoned between two passes.
PagingSpec ==
    /\ PagingInit
    /\ [][PagingNext]_vars
    /\ WF_vars(\E o \in Outcomes, n \in 1..PageLimit : FetchPage(o, n))

(******************************** claims ***********************************)
\* a step of create_event, delete_event or undo_last_action, seen on its outcome
CreateReturned(o) == o.op = "create_event" /\ o.status = "returned"

DeleteReturned(o) == o.op = "delete_event" /\ o.status = "returned"

IsUndo(o) == o.op = "undo_last_action"

AllButLast(h) == SubSeq(h, 1, Len(h) - 1)

\* the calls of `cs` that are `fn`
CallsOf(cs, fn) == {i \in 1..Len(cs) : cs[i].fn = fn}

C1_Step ==
    /\ CreateReturned(last') =>
          /\ Len(calls') = 1 /\ calls'[1].fn = "create" /\ calls'[1].result = "ok"
          /\ last'.id = calls'[1].id
          /\ action_history' = action_history \o
                << [action |-> "create", event_id |-> calls'[1].id, event_data |-> NoEvent] >>
    /\ (CreateReturned(last) /\ IsUndo(last')) =>
          /\ action_history' = AllButLast(action_history)
          /\ Len(action_history') = Len(action_history) - 1
          /\ Len(calls') = 1
          /\ calls'[1].fn = "destroy"
          /\ calls'[1].id = last.id

\* C1: a create_event that returns appends exactly one entry, action 'create',
\* event_id the identifier the collaborator assigned; an undo_last_action called
\* right after it leaves the history as it was before the create (it removes that
\* entry and records nothing) and issues exactly one collaborator call, a destroy
\* of that identifier.
C1_CreateThenUndo == [][C1_Step]_vars

\* an undo called right after a create_event that returned destroyed its event,
\* with older entries still on the history
C1_Witness ==
    /\ IsUndo(last) /\ last.after = "create_event"
    /\ last.msg = "Creation of event has been undone."
    /\ Len(calls) = 1 /\ calls[1].fn = "destroy" /\ calls[1].id = last.id
    /\ action_history # <<>>

C2_DeleteStep ==
    DeleteReturned(last') =>
       /\ Exists(calendar, last'.id)
       /\ action_history' = action_history \o
             << [action |-> "delete", event_id |-> last'.id,
                 event_data |-> EventOf(calendar, last'.id)] >>
       /\ action_history'[Len(action_history')].event_data # NoEvent

C2_UndoCalls ==
    (DeleteReturned(last) /\ IsUndo(last')) =>
       /\ action_history' = AllButLast(action_history)
       /\ Len(calls') = 1
       /\ calls'[1].fn = "create"
       /\ calls'[1].when = action_history[Len(action_history)].event_data.when
       /\ CallsOf(calls', "destroy") = {}

C2_UndoMessage ==
    /\ last'.status = "returned"
    /\ last'.msg = "Deletion of event has been undone. New event ID is"
    /\ last'.new_id = calls'[1].id
    /\ last'.new_id # None
    /\ last'.new_id # last.id

\* C2 as stated: after a delete_event(id) that returns (one 'delete' entry with the
\* snapshot fetched before the deletion), an undo_last_action called right after
\* removes the entry, issues exactly one create call built from the snapshot and no
\* destroy call, and returns a message with the new identifier, which is not id.
C2_AsStated ==
    [][ /\ C2_DeleteStep
        /\ C2_UndoCalls
        /\ (DeleteReturned(last) /\ IsUndo(last')) => C2_UndoMessage ]_vars

\* C2 as amended: the same, but the message with the new identifier is returned
\* when the create call succeeds; when the create call fails, undo_last_action
\* raises that error with the entry already removed.
C2_DeleteThenUndo ==
    [][ /\ C2_DeleteStep
        /\ C2_UndoCalls
        /\ (DeleteReturned(last) /\ IsUndo(last')) =>
              IF calls'[1].result = "ok" THEN C2_UndoMessage
              ELSE last'.status = "raised" /\ last'.err = calls'[1].result ]_vars

\* an undo called right after a delete_event that returned recreated the event
C2_Witness ==
    /\ IsUndo(last) /\ last.after = "delete_event"
    /\ last.status = "returned" /\ last.new_id # None /\ last.new_id # last.id
    /\ Len(calls) = 1 /\ calls[1].fn = "create" /\ calls[1].result = "ok"

\* destroy calls of `cs` that succeeded
Deleted(cs) == {i \in CallsOf(cs, "destroy") : cs[i].result = "ok"}

\* C3: cleanup_calendar tries to delete every listed event, a failed deletion does
\* not end the batch, and the count it reports is the number of events whose
\* deletion succeeded.
C3_ReportsSuccessful ==
    (last.op = "cleanup_calendar" /\ last.status = "returned") =>
       /\ Cardinality(CallsOf(calls, "find")) = last.count
       /\ Cardinality(Deleted(calls)) = last.count

C4_Step ==
    (last'.op = "delete_event" /\ calls'[1].result # "ok") =>
       /\ calls'[1].fn = "find" /\ calls'[1].id = last'.id
       /\ last'.status = "raised"
       /\ last'.err = calls'[1].result
       /\ CallsOf(calls', "destroy") = {}
       /\ action_history' = action_history
       /\ calendar' = calendar

C4_Snapshots ==
    /\ \A i \in 1..Len(action_history) :
          action_history[i].action = "delete" =>
             /\ action_history[i].event_data # NoEvent
             /\ action_history[i].event_data.id = action_history[i].event_id
    /\ last.op \in {"delete_event", "cleanup_calendar"} =>
          \A i \in CallsOf(calls, "destroy") :
             /\ i > 1
             /\ calls[i - 1].fn = "find"
             /\ calls[i - 1].id = calls[i].id
             /\ calls[i - 1].result = "ok"

\* C4: when the find call of delete_event(id) fails, delete_event raises that
\* error, issues no destroy call and leaves action_history as it was; every
\* 'delete' entry carries its snapshot, and every destroy call of delete_event
\* follows a find of the same event that succeeded.
C4_NoDeleteWithoutSnapshot == [][C4_Step /\ C4_Snapshots']_vars

\* a delete_event whose find call failed
C4_Witness ==
    /\ last.op = "delete_event" /\ last.status = "raised"
    /\ Exists(calendar, last.id)
    /\ Len(calls) = 1 /\ calls[1].fn = "find" /\ calls[1].result = "NylasSdkTimeoutError"

\* the list call a pass of the loop of get_all_events has just issued
C5_Fetch ==
    LET n == Len(calls')
        call == calls'[n]
        all == ById(Matching(calendar, loc.start, loc.end))
        page == SubSeq(all, loc.page_token + 1,
                       IF call.cursor = NoCursor THEN Len(all) ELSE call.cursor)
    IN  /\ n = Len(calls) + 1
        /\ call.fn = "list"
        /\ call.token = IF n = 1 THEN NoCursor ELSE calls'[n - 1].cursor
        /\ n > 1 => calls'[n - 1].result = "ok" /\ calls'[n - 1].cursor # NoCursor
        /\ call.result # "ok" =>
              /\ pc' = "idle"
              /\ last'.status = "raised" /\ last'.err = call.result
              /\ last'.events = <<>>
        /\ (call.result = "ok" /\ ~ParseAll(page).ok) =>
              /\ pc' = "idle"
              /\ last'.status = "raised" /\ last'.err = "ValueError"
              /\ last'.events = <<>>
        /\ (call.result = "ok" /\ call.cursor = NoCursor /\ ParseAll(page).ok) =>
              /\ pc' # "paging"
              /\ loc.caller = "get_all_events" =>
                    /\ last'.status = "returned"
                    /\ last'.events = ParseAll(all).events
        /\ (call.result = "ok" /\ call.cursor # NoCursor /\ ParseAll(page).ok) =>
              /\ pc' = "paging"
              /\ loc'.page_token > loc.page_token
              /\ loc'.page_token < Len(all)

\* C5: get_all_events asks for the first page without a token and for each further
\* page with the cursor of the page before, stops at the first page without a
\* cursor and returns the events of all pages in page order; a failed page fetch
\* makes it raise, returning nothing; and the loop ends.
C5_Pagination ==
    /\ [][ /\ (pc = "idle" /\ pc' = "paging") => calls' = <<>>
           /\ pc = "paging" => C5_Fetch ]_vars
    /\ (pc = "paging") ~> (pc # "paging")

\* get_all_events returned two events fetched in two pages
C5_Witness ==
    /\ last.op = "get_all_events" /\ last.status = "returned"
    /\ Len(calls) > 1 /\ calls[2].token # NoCursor
    /\ Len(last.events) > 1
    /\ last.events[1].id < last.events[2].id

\* C6: undo_last_action on an empty action_history returns the 'No actions to
\* undo.' result, issues no collaborator call and leaves the history empty.
C6_UndoOnEmpty ==
    [][ (IsUndo(last') /\ action_history = <<>>) =>
           /\ last'.status = "returned"
           /\ last'.msg = "No actions to undo."
           /\ calls' = <<>>
           /\ action_history' = <<>>
           /\ calendar' = calendar /\ nextId' = nextId ]_vars

\* an undo on an empty history, of a facade that had recorded something before
C6_Witness ==
    /\ IsUndo(last) /\ last.msg = "No actions to undo."
    /\ action_history = <<>> /\ nextId > 1

\* the collaborator call that reverses `entry`
C7_Reverses(entry, cs) ==
    CASE entry.action = "create" ->
           Len(cs) = 1 /\ cs[1].fn = "destroy" /\ cs[1].id = entry.event_id
      [] entry.action = "delete" ->
           Len(cs) = 1 /\ cs[1].fn = "create" /\ cs[1].when = entry.event_data.when
      [] OTHER -> FALSE

\* C7: every undo_last_action on a non-empty history removes exactly the entry
\* recorded last and reverses that entry, so that successive calls undo the
\* recorded actions in reverse order, one per call, until the history is empty;
\* get_events, the window queries and get_all_events never change the history.
C7_Lifo ==
    [][ /\ (IsUndo(last') /\ action_history # <<>>) =>
              /\ action_history' = AllButLast(action_history)
              /\ C7_Reverses(action_history[Len(action_history)], calls')
        /\ last'.op \in {"get_events", "get_all_events"} =>
              action_history' = action_history ]_vars

\* an undo that reversed a 'delete' entry recorded after a 'create' entry, which
\* is still on the history
C7_Witness ==
    /\ IsUndo(last) /\ last.status = "returned" /\ last.new_id # None
    /\ Len(action_history) > 0
    /\ action_history[Len(action_history)].action = "create"
    /\ action_history[Len(action_history)].event_id = last.id

DateBased(when_data) == when_data.kind \in {"Date", "Datespan"}

InstantBased(when_data) == when_data.kind \in {"Time", "Timespan"}

\* C8: parse_when returns all_day = true exactly for the Date and Datespan
\* variants, all_day = false for Time and Timespan, and raises ValueError for a
\* value that is none of the four.
C8_AllDayIffDateBased ==
    pc = "done" =>
       /\ DateBased(loc.when_data) => last.status = "returned" /\ last.result.all_day
       /\ InstantBased(loc.when_data) => last.status = "returned" /\ ~last.result.all_day
       /\ ~(DateBased(loc.when_data) \/ InstantBased(loc.when_data)) =>
             last.status = "raised" /\ last.result.err = "ValueError"

\* parse_when applied to a Datespan
C8_Witness ==
    /\ pc = "done" /\ loc.when_data.kind = "Datespan"
    /\ last.status = "returned" /\ last.result.all_day

\* C9: whenever create_event or delete_event raises, action_history is what it was
\* before the call.
C9_FailureRecordsNothing ==
    [][ (last'.op \in {"create_event", "delete_event"} /\ last'.status = "raised") =>
           action_history' = action_history ]_vars

\* C10: on a non-empty history undo_last_action removes the last entry whether or
\* not its collaborator call succeeds; when that call fails, the error reaches the
\* caller and the entry stays removed.
C10_PopBeforeCall ==
    [][ (IsUndo(last') /\ action_history # <<>>) =>
           /\ Len(action_history') = Len(action_history) - 1
           /\ action_history' = AllButLast(action_history)
           /\ (Len(calls') = 1 /\ calls'[1].result # "ok") =>
                 /\ last'.status = "raised"
                 /\ last'.err = calls'[1].result
                 /\ calendar' = calendar ]_vars

\* an undo whose collaborator call failed: the entry is gone, the event is not
C10_Witness ==
    /\ IsUndo(last) /\ last.status = "raised"
    /\ Len(calls) = 1 /\ calls[1].fn = "destroy" /\ calls[1].result # "ok"
    /\ Exists(calendar, last.id)
    /\ \A i \in 1..Len(action_history) : action_history[i].event_id # last.id

====
